---- MODULE Spec2Model ----
(***************************************************************************)
(* Model of the trace-prompt analysis pipeline:                            *)
(*   4_extract_user_and_assistant_prompts.py  (normalize_content,          *)
(*       extract_prompts_from_file, main)                                  *)
(*   5_analyze_prompts.py  (count_tokens, analyze_tool_calls,              *)
(*       add_token_columns, analyze_by_file_path)                          *)
(*                                                                         *)
(* Python strings are sequences of one-character strings, so that strip,   *)
(* join, startswith and the two regular expressions are computed on the    *)
(* characters.  A Python value is a record whose field k names its type.   *)
(***************************************************************************)
EXTENDS Integers, Sequences, FiniteSets, TLC

VARIABLES
    \* normalize_content(content)
    content, norm_pc, norm_out,
    \* extract_prompts_from_file(file_path): the message loop
    rec_msgs, rec_i, rec_pc, results, warned,
    \* main() of the extraction script: the worker pool and the collector
    files, fut, all_rows, main_pc, output_csv,
    \* analyze_tool_calls(prompt, enc)
    prompt, tool_pc, matches, mi, total_tool_tokens, tool_type,
    prev_prompt, prev_tokens, prev_type, cut_at,
    \* analyze_by_file_path(df)
    df, agg_pc, file_tool_pct, range_bin, range_counts,
    tool_type_by_file, dominant_tool_type

normVars  == <<content, norm_pc, norm_out>>
recVars   == <<rec_msgs, rec_i, rec_pc, results, warned>>
batchVars == <<files, fut, all_rows, main_pc, output_csv>>
toolVars  == <<prompt, tool_pc, matches, mi, total_tool_tokens, tool_type,
               prev_prompt, prev_tokens, prev_type, cut_at>>
aggVars   == <<df, agg_pc, file_tool_pct, range_bin, range_counts,
               tool_type_by_file, dominant_tool_type>>
vars == <<normVars, recVars, batchVars, toolVars, aggVars>>

----------------------------------------------------------------------------
(* Bounds of the model *)

MaxStrLen == 2      \* longest string drawn as a content or segment text
MaxSegs == 2        \* most segments in a list content
MaxMsgs == 2        \* most messages in the record of the message loop
NFiles == 3         \* files found under the json root
MaxFragments == 4   \* most fragments a prompt is put together from
MaxRows == 3        \* most rows in the corpus handed to the report

----------------------------------------------------------------------------
(* Python values and strings *)

Whitespace == {" ", "\n"}
NL == <<"\n">>

None == [k |-> "None", s |-> <<>>]
PyInt == [k |-> "int", s |-> <<>>]
PyStr(s) == [k |-> "str", s |-> s]

\* bool(v) for the values normalize_content returns
Truthy(v) == v.k = "str" /\ v.s # <<>>

RECURSIVE lstrip(_)
lstrip(s) ==
    IF s = <<>> THEN s
    ELSE IF Head(s) \in Whitespace THEN lstrip(Tail(s)) ELSE s

RECURSIVE rstrip(_)
rstrip(s) ==
    IF s = <<>> THEN s
    ELSE IF s[Len(s)] \in Whitespace THEN rstrip(SubSeq(s, 1, Len(s) - 1)) ELSE s

\* str.strip() with no argument
strip(s) == rstrip(lstrip(s))

\* sep.join(parts)
RECURSIVE join(_, _)
join(sep, parts) ==
    IF parts = <<>> THEN <<>>
    ELSE IF Len(parts) = 1 THEN parts[1]
    ELSE parts[1] \o sep \o join(sep, Tail(parts))

\* All sequences over S of length at most n
SeqsUpTo(S, n) == UNION {[1..m -> S] : m \in 0..n}

----------------------------------------------------------------------------
(* The shapes a message content can have after json.load *)

Chars == {" ", "a"}
Strings == SeqsUpTo(Chars, MaxStrLen)

\* A segment of a list content.  k is its Python type; for a dict, type is
\* item.get("type") ("missing" when the key is absent) and text is
\* item.get("text").
StrSegment(s) == [k |-> "str", s |-> s, type |-> "", text |-> None]
DictSegment(t, v) == [k |-> "dict", s |-> <<>>, type |-> t, text |-> v]
IntSegment == [k |-> "int", s |-> <<>>, type |-> "", text |-> None]

Segments ==
    {StrSegment(s) : s \in Strings}
    \cup {DictSegment("text", PyStr(s)) : s \in Strings}
    \cup {DictSegment("text", None), DictSegment("text", PyInt)}
    \cup {DictSegment("image_url", PyStr(<<"a">>)), DictSegment("image_url", None)}
    \cup {DictSegment("missing", PyStr(<<"a">>))}
    \cup {IntSegment}

StrContent(s) == [k |-> "str", s |-> s, items |-> <<>>]
ListContent(items) == [k |-> "list", s |-> <<>>, items |-> items]
NoneContent == [k |-> "None", s |-> <<>>, items |-> <<>>]
IntContent == [k |-> "int", s |-> <<>>, items |-> <<>>]
DictContent == [k |-> "dict", s |-> <<>>, items |-> <<>>]

Contents ==
    {StrContent(s) : s \in Strings}
    \cup {ListContent(items) : items \in SeqsUpTo(Segments, MaxSegs)}
    \cup {NoneContent, IntContent, DictContent}

----------------------------------------------------------------------------
(* normalize_content *)

\* The body of "for item in content": parts after the segments of items
RECURSIVE NormalizeParts(_, _)
NormalizeParts(items, parts) ==
    IF items = <<>> THEN parts
    ELSE LET item == Head(items)
             rest == Tail(items)
         IN  IF item.k = "str"
             THEN IF strip(item.s) # <<>>
                  THEN NormalizeParts(rest, Append(parts, strip(item.s)))
                  ELSE NormalizeParts(rest, parts)
             ELSE IF item.k = "dict" /\ item.type = "text"
                       /\ item.text.k = "str" /\ strip(item.text.s) # <<>>
                  THEN NormalizeParts(rest, Append(parts, strip(item.text.s)))
                  ELSE NormalizeParts(rest, parts)

\* A variant that returns None, not "", for an all-whitespace string
normalize_content_absent(c) ==
    IF c.k = "str"
    THEN IF strip(c.s) = <<>> THEN None ELSE PyStr(strip(c.s))
    ELSE IF c.k = "list"
         THEN LET parts == NormalizeParts(c.items, <<>>)
              IN  IF parts # <<>> THEN PyStr(strip(join(NL, parts))) ELSE None
         ELSE None

\* A variant that joins the parts without a separator
normalize_content_nosep(c) ==
    IF c.k = "str" THEN PyStr(strip(c.s))
    ELSE IF c.k = "list"
         THEN LET parts == NormalizeParts(c.items, <<>>)
              IN  IF parts # <<>> THEN PyStr(strip(join(<<>>, parts))) ELSE None
         ELSE None

normalize_content(c) ==
    IF c.k = "str" THEN PyStr(strip(c.s))
    ELSE IF c.k = "list"
         THEN LET parts == NormalizeParts(c.items, <<>>)
              IN  IF parts # <<>> THEN PyStr(strip(join(NL, parts))) ELSE None
         ELSE None

----------------------------------------------------------------------------
(* extract_prompts_from_file: one message *)

\* A message of request.messages.  k is its Python type; for a dict, role is
\* msg.get("role") ("missing" when the key is absent, which get turns into
\* None), has_content says whether the key "content" is present and content
\* is its value.
DictMessage(r, c) == [k |-> "dict", role |-> r, has_content |-> TRUE, content |-> c]
NoContentMessage(r) ==
    [k |-> "dict", role |-> r, has_content |-> FALSE, content |-> NoneContent]
StrMessage == [k |-> "str", role |-> "", has_content |-> FALSE, content |-> NoneContent]

\* msg.get("content", "")
RawContent(msg) == IF msg.has_content THEN msg.content ELSE StrContent(<<>>)

Row(fp, text, role) == [file_path |-> fp, prompt |-> text, role |-> role]

\* A variant that also keeps system messages
MessageStep_anyrole(fp, msg) ==
    IF msg.k # "dict" THEN [rows |-> <<>>, warn |-> TRUE]
    ELSE IF msg.role \notin {"user", "assistant", "system"}
         THEN [rows |-> <<>>, warn |-> FALSE]
         ELSE LET text == normalize_content(RawContent(msg))
              IN  IF Truthy(text)
                  THEN [rows |-> <<Row(fp, text.s, msg.role)>>, warn |-> FALSE]
                  ELSE [rows |-> <<>>, warn |-> FALSE]

\* One iteration of "for msg in messages": the rows appended to results and
\* whether the except branch printed a warning (msg.get raises on a message
\* that is not a dict)
MessageStep(fp, msg) ==
    IF msg.k # "dict" THEN [rows |-> <<>>, warn |-> TRUE]
    ELSE IF msg.role \notin {"user", "assistant"}
         THEN [rows |-> <<>>, warn |-> FALSE]
         ELSE LET text == normalize_content(RawContent(msg))
              IN  IF Truthy(text)
                  THEN [rows |-> <<Row(fp, text.s, msg.role)>>, warn |-> FALSE]
                  ELSE [rows |-> <<>>, warn |-> FALSE]

\* The whole loop over messages
RECURSIVE MessageLoop(_, _, _)
MessageLoop(fp, msgs, acc) ==
    IF msgs = <<>> THEN acc
    ELSE MessageLoop(fp, Tail(msgs), acc \o MessageStep(fp, Head(msgs)).rows)

----------------------------------------------------------------------------
(* SpecNormalize: normalize_content applied to every content shape *)

\* Values of the variables a specification does not use
IdleNorm ==
    /\ content = NoneContent /\ norm_pc = "idle" /\ norm_out = None
IdleRec ==
    /\ rec_msgs = <<>> /\ rec_i = 0 /\ rec_pc = "idle"
    /\ results = <<>> /\ warned = {}
IdleBatch ==
    /\ files = <<>> /\ fut = <<>> /\ all_rows = <<>>
    /\ main_pc = "idle" /\ output_csv = <<>>
IdleTool ==
    /\ prompt = <<>> /\ tool_pc = "idle" /\ matches = <<>> /\ mi = 0
    /\ total_tool_tokens = 0 /\ tool_type = None
    /\ prev_prompt = <<>> /\ prev_tokens = 0 /\ prev_type = None
    /\ cut_at = 0
IdleAgg ==
    /\ df = <<>> /\ agg_pc = "idle" /\ file_tool_pct = <<>>
    /\ range_bin = <<>> /\ range_counts = <<>>
    /\ tool_type_by_file = <<>> /\ dominant_tool_type = <<>>

InitNormalize ==
    /\ content \in Contents
    /\ norm_pc = "call"
    /\ norm_out = None
    /\ IdleRec /\ IdleBatch /\ IdleTool /\ IdleAgg

\* isinstance(content, str): return content.strip()
NormalizeStr ==
    /\ norm_pc = "call" /\ content.k = "str"
    /\ norm_out' = normalize_content(content)
    /\ norm_pc' = "return"
    /\ UNCHANGED <<content, recVars, batchVars, toolVars, aggVars>>

\* isinstance(content, list): the loop over the segments and the join
NormalizeList ==
    /\ norm_pc = "call" /\ content.k = "list"
    /\ norm_out' = normalize_content(content)
    /\ norm_pc' = "return"
    /\ UNCHANGED <<content, recVars, batchVars, toolVars, aggVars>>

\* any other shape: return None
NormalizeOther ==
    /\ norm_pc = "call" /\ content.k \notin {"str", "list"}
    /\ norm_out' = normalize_content(content)
    /\ norm_pc' = "return"
    /\ UNCHANGED <<content, recVars, batchVars, toolVars, aggVars>>

NextNormalize == NormalizeStr \/ NormalizeList \/ NormalizeOther

SpecNormalize == InitNormalize /\ [][NextNormalize]_vars

----------------------------------------------------------------------------
(* SpecRecord: the message loop of extract_prompts_from_file on one record *)

RecordPath == "f"

RecordContents ==
    {StrContent(<<>>), StrContent(<<" ">>), StrContent(<<"a">>),
     StrContent(<<" ", "a", "\n">>),
     ListContent(<<StrSegment(<<" ">>), DictSegment("image_url", PyStr(<<"a">>))>>),
     ListContent(<<StrSegment(<<"a", " ">>), DictSegment("text", PyStr(<<" ", "a">>))>>),
     NoneContent}

Roles == {"user", "assistant", "system", "missing"}

RecordMessages ==
    {DictMessage(r, c) : r \in Roles, c \in RecordContents}
    \cup {NoContentMessage(r) : r \in Roles}
    \cup {StrMessage}

InitRecord ==
    /\ rec_msgs \in SeqsUpTo(RecordMessages, MaxMsgs)
    /\ rec_i = 1
    /\ rec_pc = "loop"
    /\ results = <<>>
    /\ warned = {}
    /\ IdleNorm /\ IdleBatch /\ IdleTool /\ IdleAgg

\* One iteration of the loop on rec_msgs[rec_i]
ProcessMessage ==
    /\ rec_pc = "loop" /\ rec_i <= Len(rec_msgs)
    /\ LET step == MessageStep(RecordPath, rec_msgs[rec_i])
       IN  /\ results' = results \o step.rows
           /\ warned' = IF step.warn THEN warned \cup {rec_i} ELSE warned
    /\ rec_i' = rec_i + 1
    /\ UNCHANGED <<rec_msgs, rec_pc, normVars, batchVars, toolVars, aggVars>>

\* return results
ReturnResults ==
    /\ rec_pc = "loop" /\ rec_i > Len(rec_msgs)
    /\ rec_pc' = "return"
    /\ UNCHANGED <<rec_msgs, rec_i, results, warned,
                   normVars, batchVars, toolVars, aggVars>>

NextRecord == ProcessMessage \/ ReturnResults

SpecRecord == InitRecord /\ [][NextRecord]_vars

----------------------------------------------------------------------------
(* main() of the extraction script: files, the worker pool, the collector *)

MAX_THREADS == 24

\* What a file holds.  load is "error" when open or json.load raises; top is
\* the type of the decoded document; request and messages are the types of
\* data["request"] and request["messages"] ("missing" when the key is
\* absent); msgs are the elements iterating over messages yields.
JsonFile(load, top, request, messages, msgs) ==
    [load |-> load, top |-> top, request |-> request,
     messages |-> messages, msgs |-> msgs]

GoodFileA ==
    JsonFile("ok", "dict", "dict", "list",
             <<DictMessage("user", StrContent(<<"a">>)),
               DictMessage("system", StrContent(<<"a">>)),
               DictMessage("assistant", StrContent(<<" ", "a", "\n">>))>>)
GoodFileB ==
    JsonFile("ok", "dict", "dict", "list",
             <<StrMessage,
               DictMessage("user", StrContent(<<" ">>)),
               DictMessage("user",
                   ListContent(<<StrSegment(<<"a", " ">>),
                                 DictSegment("text", PyStr(<<" ", "a">>))>>))>>)
InvalidJson == JsonFile("error", "", "", "", <<>>)
TopLevelList == JsonFile("ok", "list", "", "", <<>>)
RequestMissing == JsonFile("ok", "dict", "missing", "", <<>>)
RequestNull == JsonFile("ok", "dict", "None", "", <<>>)
MessagesMissing == JsonFile("ok", "dict", "dict", "missing", <<>>)
MessagesNull == JsonFile("ok", "dict", "dict", "None", <<>>)
\* "messages": "ab" iterates over the characters, each a str
MessagesString == JsonFile("ok", "dict", "dict", "str", <<StrMessage, StrMessage>>)

BatchFiles ==
    {GoodFileA, GoodFileB, InvalidJson, TopLevelList, RequestMissing,
     RequestNull, MessagesMissing, MessagesNull, MessagesString}

Returned(rows) == [raised |-> FALSE, rows |-> rows]
Raised == [raised |-> TRUE, rows |-> <<>>]

\* The outcome of extract_prompts_from_file(fp): the list it returns, or the
\* exception that leaves it (only open and json.load are inside the try)
extract_prompts_from_file(fp, file) ==
    IF file.load # "ok" THEN Returned(<<>>)
    ELSE IF file.top # "dict" THEN Raised             \* data.get
    ELSE IF file.request = "missing" THEN Returned(<<>>)
    ELSE IF file.request # "dict" THEN Raised         \* request_obj.get
    ELSE IF file.messages = "missing" THEN Returned(<<>>)
    ELSE IF file.messages \notin {"list", "str"} THEN Raised  \* for msg in messages
    ELSE Returned(MessageLoop(fp, file.msgs, <<>>))

Future(state, outcome) ==
    [state |-> state, raised |-> outcome.raised, rows |-> outcome.rows]

Running == {f \in 1..NFiles : fut[f].state = "running"}

InitBatch ==
    /\ files \in [1..NFiles -> BatchFiles]
    /\ fut = [f \in 1..NFiles |-> Future("pending", Returned(<<>>))]
    /\ all_rows = <<>>
    /\ main_pc = "collect"
    /\ output_csv = <<>>
    /\ IdleNorm /\ IdleRec /\ IdleTool /\ IdleAgg

\* A pool thread takes a submitted call
StartWorker(f) ==
    /\ main_pc # "idle"
    /\ fut[f].state = "pending"
    /\ Cardinality(Running) < MAX_THREADS
    /\ fut' = [fut EXCEPT ![f].state = "running"]
    /\ UNCHANGED <<files, all_rows, main_pc, output_csv,
                   normVars, recVars, toolVars, aggVars>>

\* The call returns or raises; the future holds the outcome
FinishWorker(f) ==
    /\ main_pc # "idle"
    /\ fut[f].state = "running"
    /\ fut' = [fut EXCEPT ![f] = Future("finished", extract_prompts_from_file(f, files[f]))]
    /\ UNCHANGED <<files, all_rows, main_pc, output_csv,
                   normVars, recVars, toolVars, aggVars>>

\* as_completed yields a finished future; fut.result() returns its list
CollectRows(f) ==
    /\ main_pc = "collect"
    /\ fut[f].state = "finished" /\ ~fut[f].raised
    /\ all_rows' = all_rows \o fut[f].rows
    /\ fut' = [fut EXCEPT ![f].state = "yielded"]
    /\ UNCHANGED <<files, main_pc, output_csv, normVars, recVars, toolVars, aggVars>>

\* fut.result() re-raises the worker's exception: it leaves main
CollectRaises(f) ==
    /\ main_pc = "collect"
    /\ fut[f].state = "finished" /\ fut[f].raised
    /\ main_pc' = "aborted"
    /\ fut' = [fut EXCEPT ![f].state = "yielded"]
    /\ UNCHANGED <<files, all_rows, output_csv, normVars, recVars, toolVars, aggVars>>

\* All futures were yielded: the rows are written to the CSV
WriteCsv ==
    /\ main_pc = "collect"
    /\ \A f \in 1..NFiles : fut[f].state = "yielded"
    /\ output_csv' = all_rows
    /\ main_pc' = "done"
    /\ UNCHANGED <<files, fut, all_rows, normVars, recVars, toolVars, aggVars>>

NextBatch ==
    \/ \E f \in 1..NFiles : StartWorker(f)
    \/ \E f \in 1..NFiles : FinishWorker(f)
    \/ \E f \in 1..NFiles : CollectRows(f)
    \/ \E f \in 1..NFiles : CollectRaises(f)
    \/ WriteCsv

SpecBatch == InitBatch /\ [][NextBatch]_vars

----------------------------------------------------------------------------
(* 5_analyze_prompts.py: the tokenizer and the two regular expressions *)

\* The literals of TOOL_RESULT_PATTERN and of the startswith test
BEGIN_MARKER == <<"<", "t", "o", "o", "l", "_", "r", "e", "s", "u", "l", "t", ">">>
END_MARKER == <<"<", "/", "t", "o", "o", "l", "_", "r", "e", "s", "u", "l", "t", ">">>
STR_REPLACE == <<"<", "s", "t", "r", "-", "r", "e", "p", "l", "a", "c", "e", ">">>

\* The character class [a-zA-Z0-9\-_] of INNER_TAG_PATTERN
TagChars ==
    {"a", "b", "c", "d", "e", "f", "g", "h", "i", "j", "k", "l", "m",
     "n", "o", "p", "q", "r", "s", "t", "u", "v", "w", "x", "y", "z",
     "A", "B", "C", "D", "E", "F", "G", "H", "I", "J", "K", "L", "M",
     "N", "O", "P", "Q", "R", "S", "T", "U", "V", "W", "X", "Y", "Z",
     "0", "1", "2", "3", "4", "5", "6", "7", "8", "9", "-", "_"}

\* len(enc.encode(text)).  The vocabulary is tiktoken's; the model keeps what
\* the accounting depends on: a deterministic count, 0 for the empty string,
\* one token for a run of word characters and one for any other character
\* (so the count of a text is not the sum of the counts of its pieces).
encode_len(text) ==
    Cardinality({i \in 1..Len(text) :
        \/ text[i] \notin TagChars
        \/ i = 1
        \/ text[i - 1] \notin TagChars})

\* str.startswith
startswith(s, lit) == Len(s) >= Len(lit) /\ SubSeq(s, 1, Len(lit)) = lit

\* The least index >= from at which lit occurs in s, or 0
find(s, lit, from) ==
    LET at == {i \in from..(Len(s) - Len(lit) + 1) :
                  s[i] = lit[1] /\ SubSeq(s, i, i + Len(lit) - 1) = lit}
    IN  IF at = {} THEN 0 ELSE CHOOSE i \in at : \A j \in at : i <= j

\* The matches of <tool_result>(.*?)</tool_result> with DOTALL from position
\* pos on, left to right and non-overlapping: each begin marker is paired with
\* the nearest end marker after it.  A match keeps its span and its group 1.
RECURSIVE finditer(_, _)
finditer(s, pos) ==
    LET b == find(s, BEGIN_MARKER, pos)
        e == IF b = 0 THEN 0 ELSE find(s, END_MARKER, b + Len(BEGIN_MARKER))
    IN  IF b = 0 \/ e = 0 THEN <<>>
        ELSE <<[start |-> b,
                stop |-> e + Len(END_MARKER) - 1,
                inner |-> SubSeq(s, b + Len(BEGIN_MARKER), e - 1)]>>
             \o finditer(s, e + Len(END_MARKER))

\* TOOL_RESULT_PATTERN.findall(prompt)
findall(s) == finditer(s, 1)

\* The length of the run of tag characters of s that starts at i
RECURSIVE TagRun(_, _)
TagRun(s, i) ==
    IF i > Len(s) \/ s[i] \notin TagChars THEN 0 ELSE 1 + TagRun(s, i + 1)

\* INNER_TAG_PATTERN.search(s) from position i on: group 1 of the leftmost
\* match of <([a-zA-Z0-9\-_]+)>, or None
RECURSIVE search_tag(_, _)
search_tag(s, i) ==
    IF i > Len(s) THEN None
    ELSE LET n == TagRun(s, i + 1)
         IN  IF s[i] = "<" /\ n >= 1 /\ i + n + 1 <= Len(s) /\ s[i + n + 1] = ">"
             THEN PyStr(SubSeq(s, i + 1, i + n))
             ELSE search_tag(s, i + 1)

----------------------------------------------------------------------------
(* analyze_tool_calls *)

Acc(tokens, type) == [tokens |-> tokens, type |-> type]

\* A variant that counts a block without a tag
LoopBody_counts_untagged(m, acc) ==
    LET inner == strip(m)
        tag == search_tag(inner, 1)
    IN  IF startswith(inner, STR_REPLACE) THEN acc
        ELSE IF tag = None THEN Acc(acc.tokens + encode_len(inner), acc.type)
        ELSE Acc(acc.tokens + encode_len(inner),
                 IF acc.type = None THEN tag ELSE acc.type)

\* A variant without the <str-replace> test
LoopBody_counts_str_replace(m, acc) ==
    LET inner == strip(m)
        tag == search_tag(inner, 1)
    IN  IF tag = None THEN acc
        ELSE Acc(acc.tokens + encode_len(inner),
                 IF acc.type = None THEN tag ELSE acc.type)

\* A variant in which every tagged block sets tool_type
LoopBody_overwrites(m, acc) ==
    LET inner == strip(m)
        tag == search_tag(inner, 1)
    IN  IF startswith(inner, STR_REPLACE) THEN acc
        ELSE IF tag = None THEN acc
        ELSE Acc(acc.tokens + encode_len(inner), tag)

\* The body of "for m in matches": total_tool_tokens and tool_type after it
LoopBody(m, acc) ==
    LET inner == strip(m)
        tag == search_tag(inner, 1)
    IN  IF startswith(inner, STR_REPLACE) THEN acc
        ELSE IF tag = None THEN acc
        ELSE Acc(acc.tokens + encode_len(inner),
                 IF acc.type = None THEN tag ELSE acc.type)

----------------------------------------------------------------------------
(* SpecTool: analyze_tool_calls on the prompts of the corpus *)

\* Pieces of trace text a prompt is put together from
TAG_A == <<"<", "a", ">", " ">>
BEGIN_PART == <<"<", "t", "o", "o", "l", "_">>
REST_AND_TAG_B == <<"r", "e", "s", "u", "l", "t", ">", "<", "b", ">">>
STR_REPLACE_BLOCK == BEGIN_MARKER \o <<" ">> \o STR_REPLACE \o END_MARKER
TAGGED_BLOCK == BEGIN_MARKER \o TAG_A \o END_MARKER

Fragments ==
    {BEGIN_MARKER, END_MARKER, STR_REPLACE, TAG_A, BEGIN_PART, REST_AND_TAG_B,
     STR_REPLACE_BLOCK, TAGGED_BLOCK}

Prompts == {join(<<>>, fs) : fs \in SeqsUpTo(Fragments, MaxFragments)}

InitTool ==
    /\ prompt \in Prompts
    /\ tool_pc = "start"
    /\ matches = <<>>
    /\ mi = 0
    /\ total_tool_tokens = 0
    /\ tool_type = None
    /\ prev_prompt = <<>>
    /\ prev_tokens = 0
    /\ prev_type = None
    /\ cut_at = 0
    /\ IdleNorm /\ IdleRec /\ IdleBatch /\ IdleAgg

\* total_tool_tokens = 0; tool_type = None; matches = findall(prompt)
FindMatches ==
    /\ tool_pc = "start"
    /\ matches' = findall(prompt)
    /\ mi' = 1
    /\ total_tool_tokens' = 0
    /\ tool_type' = None
    /\ tool_pc' = "loop"
    /\ UNCHANGED <<prompt, prev_prompt, prev_tokens, prev_type, cut_at,
                   normVars, recVars, batchVars, aggVars>>

\* One iteration of the loop on matches[mi]
ProcessMatch ==
    /\ tool_pc = "loop" /\ mi <= Len(matches)
    /\ LET acc == LoopBody(matches[mi].inner, Acc(total_tool_tokens, tool_type))
       IN  /\ total_tool_tokens' = acc.tokens
           /\ tool_type' = acc.type
    /\ mi' = mi + 1
    /\ UNCHANGED <<prompt, tool_pc, matches, prev_prompt, prev_tokens, prev_type,
                   cut_at, normVars, recVars, batchVars, aggVars>>

\* return total_tool_tokens, tool_type
ReturnToolCalls ==
    /\ tool_pc = "loop" /\ mi > Len(matches)
    /\ tool_pc' = "done"
    /\ UNCHANGED <<prompt, matches, mi, total_tool_tokens, tool_type,
                   prev_prompt, prev_tokens, prev_type, cut_at,
                   normVars, recVars, batchVars, aggVars>>

\* The next row holds the same text without one of its <str-replace> blocks
\* (the whole span, markers included); the result for the full text is kept
NextRowWithoutBlock(k) ==
    /\ tool_pc = "done" /\ cut_at = 0
    /\ k \in 1..Len(matches)
    /\ startswith(strip(matches[k].inner), STR_REPLACE)
    /\ prev_prompt' = prompt
    /\ prev_tokens' = total_tool_tokens
    /\ prev_type' = tool_type
    /\ cut_at' = matches[k].start
    /\ prompt' = SubSeq(prompt, 1, matches[k].start - 1)
                   \o SubSeq(prompt, matches[k].stop + 1, Len(prompt))
    /\ tool_pc' = "start"
    /\ UNCHANGED <<matches, mi, total_tool_tokens, tool_type,
                   normVars, recVars, batchVars, aggVars>>

NextTool ==
    \/ FindMatches
    \/ ProcessMatch
    \/ ReturnToolCalls
    \/ \E k \in 1..MaxFragments : NextRowWithoutBlock(k)

SpecTool == InitTool /\ [][NextTool]_vars

----------------------------------------------------------------------------
(* Properties of the extraction script *)

NonBlank(s) == \E i \in 1..Len(s) : s[i] \notin Whitespace

\* t is s without its leading and trailing whitespace
IsTrimOf(t, s) ==
    \E i \in 1..Len(s) + 1 : \E j \in 0..Len(s) :
        /\ t = SubSeq(s, i, j)
        /\ \A n \in 1..(i - 1) : s[n] \in Whitespace
        /\ \A n \in (j + 1)..Len(s) : s[n] \in Whitespace
        /\ t # <<>> => t[1] \notin Whitespace /\ t[Len(t)] \notin Whitespace

\* The trimmed s, as the piece of s that IsTrimOf picks out
TrimOf(s) ==
    CHOOSE t \in {SubSeq(s, i, j) : i \in 1..Len(s) + 1, j \in 0..Len(s)} : IsTrimOf(t, s)

\* The files the claim calls malformed: undecodable, invalid JSON, a top
\* level that is not an object, request or messages missing, null or of the
\* wrong shape
Malformed(file) ==
    \/ file.load # "ok"
    \/ file.top # "dict"
    \/ file.request # "dict"
    \/ file.messages # "list"

\* Messages that must produce a row, with absent read as None
EligibleNotNone(msg) ==
    /\ msg.k = "dict"
    /\ msg.role \in {"user", "assistant"}
    /\ normalize_content(RawContent(msg)) # None

\* Messages that must produce a row, with absent or empty text producing none
EligibleNonEmpty(msg) ==
    /\ msg.k = "dict"
    /\ msg.role \in {"user", "assistant"}
    /\ Truthy(normalize_content(RawContent(msg)))

ExpectedRows(fp, msgs) ==
    LET e == SelectSeq(msgs, EligibleNonEmpty)
    IN  [i \in 1..Len(e) |->
            Row(fp, normalize_content(RawContent(e[i])).s, e[i].role)]

RowsOfFile(rows, fp) == SelectSeq(rows, LAMBDA r : r.file_path = fp)

Contiguous(rows, fp) ==
    \A i, j \in 1..Len(rows) :
        (i < j /\ rows[i].file_path = fp /\ rows[j].file_path = fp)
            => \A n \in i..j : rows[n].file_path = fp

RunEnded == main_pc \in {"done", "aborted"}

\* C1: a malformed file yields an empty row sequence for that file only; the
\* run is never aborted and the rows of every other file are collected.
C1_MalformedFileIsolated ==
    /\ main_pc # "aborted"
    /\ \A f \in 1..NFiles :
          (Malformed(files[f]) /\ fut[f].state \in {"finished", "yielded"})
              => (~fut[f].raised /\ fut[f].rows = <<>>)
    /\ main_pc = "done" =>
          \A f \in 1..NFiles :
              RowsOfFile(output_csv, f) =
                  IF Malformed(files[f]) THEN <<>> ELSE ExpectedRows(f, files[f].msgs)

\* C2: whatever the order of completion, when the run ends the corpus holds
\* exactly the rows of the eligible messages of every successfully parsed
\* file, each file's rows contiguous and in message order.
C2_CorpusComplete ==
    RunEnded =>
        \A f \in 1..NFiles :
            (files[f].load = "ok" /\ ~extract_prompts_from_file(f, files[f]).raised)
                => /\ RowsOfFile(output_csv, f) = ExpectedRows(f, files[f].msgs)
                   /\ Contiguous(output_csv, f)

\* What does hold of the collector: whenever the CSV is written, it holds the
\* rows of every file, per file contiguous and in message order
CorpusCompleteWhenWritten ==
    main_pc = "done" =>
        \A f \in 1..NFiles :
            /\ RowsOfFile(output_csv, f) = ExpectedRows(f, files[f].msgs)
            /\ Contiguous(output_csv, f)

\* The messages the loop has gone through
Processed == SubSeq(rec_msgs, 1, rec_i - 1)

RowsMatch(rows, msgs) ==
    /\ Len(rows) = Len(msgs)
    /\ \A i \in 1..Len(rows) :
          /\ rows[i].file_path = RecordPath
          /\ rows[i].role = msgs[i].role
          /\ rows[i].prompt = normalize_content(RawContent(msgs[i])).s
          /\ rows[i].prompt # <<>>
          /\ rows[i].prompt[1] \notin Whitespace
          /\ rows[i].prompt[Len(rows[i].prompt)] \notin Whitespace

\* C3 as stated: a row is emitted for a message if and only if its role is
\* user or assistant and normalize_content returns something other than
\* absent (None); rows carry the file, the role and a non-empty trimmed text.
C3_RowIffNotAbsent ==
    RowsMatch(results, SelectSeq(Processed, EligibleNotNone))

\* C3 amended: a row is emitted for a message if and only if its role is
\* user or assistant and normalize_content returns a non-empty text (neither
\* None nor the empty string); rows carry the file, the role and a non-empty
\* trimmed text.
C3_RowIffNonEmptyText ==
    RowsMatch(results, SelectSeq(Processed, EligibleNonEmpty))

\* An all-whitespace user message went through the loop without a row, and an
\* eligible one produced its trimmed row
C3_Witness ==
    /\ rec_pc = "return"
    /\ Len(rec_msgs) = 2
    /\ rec_msgs[1] = DictMessage("user", StrContent(<<" ">>))
    /\ rec_msgs[2] = DictMessage("assistant", StrContent(<<" ", "a", "\n">>))
    /\ results = <<Row(RecordPath, <<"a">>, "assistant")>>

\* C4 as stated: for a string, normalize returns the trimmed string when it is
\* non-empty and absent (None) when trimming leaves the empty string.
C4_StringTrimmedOrAbsent ==
    (norm_pc = "return" /\ content.k = "str") =>
        IF NonBlank(content.s)
        THEN norm_out.k = "str" /\ IsTrimOf(norm_out.s, content.s)
        ELSE norm_out = None

\* C4 amended: for a string, normalize returns exactly the trimmed string;
\* when trimming leaves nothing that is the empty string, not None.
C4_StringTrimmed ==
    (norm_pc = "return" /\ content.k = "str") =>
        /\ norm_out.k = "str"
        /\ IsTrimOf(norm_out.s, content.s)
        /\ ~NonBlank(content.s) => norm_out = PyStr(<<>>)

\* normalize returned "" for a string of whitespace
C4_Witness ==
    /\ norm_pc = "return"
    /\ content = StrContent(<<" ", " ">>)
    /\ norm_out = PyStr(<<>>)

\* Segments that contribute a piece, and the piece
Contributes(seg) ==
    \/ seg.k = "str" /\ NonBlank(seg.s)
    \/ seg.k = "dict" /\ seg.type = "text" /\ seg.text.k = "str" /\ NonBlank(seg.text.s)

SegmentText(seg) == IF seg.k = "str" THEN seg.s ELSE seg.text.s

\* C5: for a list, normalize returns the trimmed texts of the contributing
\* segments joined by a newline in their order; every other segment shape
\* contributes nothing; the result is absent when no segment contributes.
C5_ListJoined ==
    (norm_pc = "return" /\ content.k = "list") =>
        LET c == SelectSeq(content.items, Contributes)
        IN  IF c = <<>>
            THEN norm_out = None
            ELSE /\ norm_out.k = "str"
                 /\ norm_out.s = join(NL, [i \in 1..Len(c) |-> TrimOf(SegmentText(c[i]))])

\* Two segments contributed, around one that did not
C5_Witness ==
    /\ norm_pc = "return"
    /\ content = ListContent(<<StrSegment(<<"a", " ">>),
                               DictSegment("text", PyStr(<<" ", "a">>))>>)
    /\ norm_out = PyStr(<<"a", "\n", "a">>)

----------------------------------------------------------------------------
(* Properties of analyze_tool_calls *)

Occurs(s, lit, i) ==
    /\ i >= 1
    /\ i + Len(lit) - 1 <= Len(s)
    /\ SubSeq(s, i, i + Len(lit) - 1) = lit

\* <tag> stands at position i of s, the tag n characters long
TagMatchAt(s, i, n) ==
    /\ s[i] = "<"
    /\ i + n + 1 <= Len(s)
    /\ \A j \in (i + 1)..(i + n) : s[j] \in TagChars
    /\ s[i + n + 1] = ">"

TagPositions(s) == {i \in 1..Len(s) : \E n \in 1..Len(s) : TagMatchAt(s, i, n)}

\* The first tag of s, where there is one
FirstTagOf(s) ==
    LET i == CHOOSE i \in TagPositions(s) : \A j \in TagPositions(s) : i <= j
        n == CHOOSE n \in 1..Len(s) : TagMatchAt(s, i, n)
    IN  SubSeq(s, i + 1, i + n)

Excluded(k) == startswith(strip(matches[k].inner), STR_REPLACE)
Tagged(k) == TagPositions(strip(matches[k].inner)) # {}
TokensOf(k) == encode_len(strip(matches[k].inner))

RECURSIVE SumTokens(_)
SumTokens(K) ==
    IF K = {} THEN 0
    ELSE LET k == CHOOSE k \in K : TRUE
         IN  TokensOf(k) + SumTokens(K \ {k})

Blocks == 1..Len(matches)

\* matches are exactly the tool-result blocks of prompt: begin marker, inner
\* text, nearest end marker; in text order, without overlap, none left out
BlocksOfPrompt ==
    /\ \A k \in Blocks :
          LET m == matches[k]
          IN  /\ Occurs(prompt, BEGIN_MARKER, m.start)
              /\ Occurs(prompt, END_MARKER, m.stop - Len(END_MARKER) + 1)
              /\ m.inner = SubSeq(prompt, m.start + Len(BEGIN_MARKER),
                                  m.stop - Len(END_MARKER))
              /\ \A i \in (m.start + Len(BEGIN_MARKER))..(m.stop - Len(END_MARKER)) :
                    ~Occurs(prompt, END_MARKER, i)
              /\ k > 1 => matches[k - 1].stop < m.start
    /\ \A i \in 1..Len(prompt) :
          (/\ Occurs(prompt, BEGIN_MARKER, i)
           /\ \E j \in (i + Len(BEGIN_MARKER))..Len(prompt) : Occurs(prompt, END_MARKER, j))
              => \E k \in Blocks : matches[k].start <= i /\ i <= matches[k].stop

\* C6 as stated: a block that is not excluded and holds no tag still adds the
\* token count of its trimmed inner text to tool_tokens: tool_tokens is the
\* sum over all blocks that are not excluded.
C6_UntaggedBlockCounted ==
    tool_pc = "done" =>
        total_tool_tokens = SumTokens({k \in Blocks : ~Excluded(k)})

\* C6 amended: a block that is not excluded and holds no tag adds neither
\* tokens nor a type: tool_tokens is the sum of the token counts of the
\* trimmed inner texts of the non-excluded blocks that hold a tag, and with
\* no such block tool_tokens is 0 and tool_type absent.
C6_UntaggedBlockSkipped ==
    tool_pc = "done" =>
        LET counted == {k \in Blocks : ~Excluded(k) /\ Tagged(k)}
        IN  /\ total_tool_tokens = SumTokens(counted)
            /\ counted = {} => (total_tool_tokens = 0 /\ tool_type = None)

\* A prompt with an untagged block of two tokens before a tagged one of three
C6_Witness ==
    /\ tool_pc = "done" /\ cut_at = 0
    /\ Len(matches) = 2
    /\ ~Excluded(1) /\ ~Tagged(1) /\ TokensOf(1) = 2
    /\ ~Excluded(2) /\ Tagged(2) /\ TokensOf(2) = 3
    /\ total_tool_tokens = 3

\* The text before the removed block and the text after it join into a
\* begin marker
JoinsBeginMarker ==
    \E i \in (cut_at - Len(BEGIN_MARKER) + 1)..(cut_at - 1) :
        Occurs(prompt, BEGIN_MARKER, i)

\* C7 as stated: removing a well-formed block whose trimmed inner text starts
\* with <str-replace> leaves tool_tokens and tool_type unchanged.
C7_RemovalChangesNothing ==
    (tool_pc = "done" /\ cut_at > 0) =>
        (total_tool_tokens = prev_tokens /\ tool_type = prev_type)

\* C7 amended: the same, for every removal that does not join the text on
\* both sides of the block into a new begin marker.
C7_RemovalWithoutJoinChangesNothing ==
    (tool_pc = "done" /\ cut_at > 0 /\ ~JoinsBeginMarker) =>
        (total_tool_tokens = prev_tokens /\ tool_type = prev_type)

\* A <str-replace> block was removed from a prompt that also holds a counted
\* block
C7_Witness ==
    /\ tool_pc = "done" /\ cut_at > 0 /\ ~JoinsBeginMarker
    /\ Len(matches) >= 1
    /\ prev_tokens > 0 /\ total_tool_tokens = prev_tokens
    /\ prev_type # None /\ tool_type = prev_type

\* C8: tool_type is the first tag inside the earliest block, in text order,
\* that is not excluded and holds a tag, and absent exactly when there is no
\* such block; a prompt without a begin marker has tool_tokens 0 and tool_type
\* absent; later blocks do not overwrite tool_type.
C8_FirstTaggedBlockSetsType ==
    tool_pc = "done" =>
        LET tagged == {k \in Blocks : ~Excluded(k) /\ Tagged(k)}
        IN  /\ BlocksOfPrompt
            /\ tagged = {} <=> tool_type = None
            /\ tagged # {} =>
                  LET first == CHOOSE k \in tagged : \A j \in tagged : k <= j
                  IN  tool_type = PyStr(FirstTagOf(strip(matches[first].inner)))
            /\ (\A i \in 1..Len(prompt) : ~Occurs(prompt, BEGIN_MARKER, i))
                  => (total_tool_tokens = 0 /\ tool_type = None)

\* Two counted blocks with different first tags: the first one's stays
C8_Witness ==
    /\ tool_pc = "done"
    /\ Len(matches) = 2
    /\ ~Excluded(1) /\ Tagged(1) /\ ~Excluded(2) /\ Tagged(2)
    /\ FirstTagOf(strip(matches[1].inner)) = <<"b">>
    /\ FirstTagOf(strip(matches[2].inner)) = <<"a">>
    /\ tool_type = PyStr(<<"b">>)

----------------------------------------------------------------------------
(* analyze_by_file_path: the data frame *)

\* The file paths and the tool types, each in the sort order of the group keys
FilePaths == <<"f1", "f2">>
TypeOrder == <<PyStr(<<"a">>), PyStr(<<"b">>)>>

RankIn(order, x) == CHOOSE i \in 1..Len(order) : order[i] = x

\* (num_token, num_token_from_toolcall) of a row
TokenCounts == {<<0, 0>>, <<3, 0>>, <<2, 1>>, <<6, 5>>}

\* The rows add_token_columns leaves: a prompt that is not a string has 0
\* tokens, 0 tool tokens and no tool type; tool tokens are counted exactly
\* for the blocks that set a tool type, and they are part of the prompt.
EnrichedRows ==
    {[file_path |-> fp, num_token |-> c[1], num_token_from_toolcall |-> c[2],
      tool_type |-> t] :
        fp \in {FilePaths[i] : i \in 1..Len(FilePaths)},
        c \in {x \in TokenCounts : x[2] = 0},
        t \in {None}}
    \cup
    {[file_path |-> fp, num_token |-> c[1], num_token_from_toolcall |-> c[2],
      tool_type |-> t] :
        fp \in {FilePaths[i] : i \in 1..Len(FilePaths)},
        c \in {x \in TokenCounts : x[2] > 0},
        t \in {TypeOrder[i] : i \in 1..Len(TypeOrder)}}

\* Series.sum()
RECURSIVE Sum(_)
Sum(numbers) == IF numbers = <<>> THEN 0 ELSE Head(numbers) + Sum(Tail(numbers))

ToolColumn(rows) == [i \in 1..Len(rows) |-> rows[i].num_token_from_toolcall]
TokenColumn(rows) == [i \in 1..Len(rows) |-> rows[i].num_token]

\* df.groupby("file_path"): the keys that occur, sorted, and a key's rows
GroupKeys(rows) ==
    SelectSeq(FilePaths, LAMBDA fp : \E i \in 1..Len(rows) : rows[i].file_path = fp)
GroupRows(rows, fp) == SelectSeq(rows, LAMBDA r : r.file_path = fp)

\* group[col].sum() / group["num_token"].sum() * 100 per file_path.  The value
\* is 100 * tool / total; it is NaN when total is 0 (0 / 0).
PctOfGroups(rows) ==
    LET keys == GroupKeys(rows)
    IN  [i \in 1..Len(keys) |->
            [file_path |-> keys[i],
             tool |-> Sum(ToolColumn(GroupRows(rows, keys[i]))),
             total |-> Sum(TokenColumn(GroupRows(rows, keys[i])))]]

IsNaN(g) == g.total = 0

\* a.pct > b.pct for two values that are not NaN
PctGreater(a, b) == a.tool * b.total > b.tool * a.total

\* sort_values("tool_call_token_pct", ascending=False): NaN last
RECURSIVE InsertDescending(_, _)
InsertDescending(sorted, g) ==
    IF sorted = <<>> THEN <<g>>
    ELSE IF ~IsNaN(g) /\ (IsNaN(Head(sorted)) \/ PctGreater(g, Head(sorted)))
         THEN <<g>> \o sorted
         ELSE <<Head(sorted)>> \o InsertDescending(Tail(sorted), g)

RECURSIVE SortDescending(_, _)
SortDescending(groups, sorted) ==
    IF groups = <<>> THEN sorted
    ELSE SortDescending(Tail(groups), InsertDescending(sorted, Head(groups)))

bins == <<0, 20, 40, 60, 80, 100>>

\* pd.cut(value, bins, right=True): the index of the bin (bins[b], bins[b+1]]
\* that holds the value, 0 (NaN) when none does
cut(g) ==
    IF IsNaN(g) THEN 0
    ELSE LET hit == {b \in 1..(Len(bins) - 1) :
                        /\ bins[b] * g.total < 100 * g.tool
                        /\ 100 * g.tool <= bins[b + 1] * g.total}
         IN  IF hit = {} THEN 0 ELSE CHOOSE b \in hit : TRUE

\* value_counts().sort_index() of the categorical column: NaN is not counted
value_counts(binned) ==
    [b \in 1..(Len(bins) - 1) |->
        Cardinality({i \in 1..Len(binned) : binned[i] = b})]

Typed(r) == r.tool_type # None

\* A variant that keeps the groups in order of first appearance (sort=False)
RECURSIVE SumByFileAndType_unsorted(_)
SumByFileAndType_unsorted(rows) ==
    IF rows = <<>> THEN <<>>
    ELSE LET r == rows[Len(rows)]
             before == SumByFileAndType_unsorted(SubSeq(rows, 1, Len(rows) - 1))
             at == {i \in 1..Len(before) :
                       before[i].file_path = r.file_path /\ before[i].tool_type = r.tool_type}
         IN  IF ~Typed(r) THEN before
             ELSE IF at = {}
                  THEN Append(before, [file_path |-> r.file_path, tool_type |-> r.tool_type,
                                       sum |-> r.num_token_from_toolcall])
                  ELSE [i \in 1..Len(before) |->
                           IF i \in at
                           THEN [before[i] EXCEPT !.sum = @ + r.num_token_from_toolcall]
                           ELSE before[i]]

\* The (file_path, tool_type) pairs in sort order
KeyPairs ==
    [n \in 1..(Len(FilePaths) * Len(TypeOrder)) |->
        <<FilePaths[((n - 1) \div Len(TypeOrder)) + 1],
          TypeOrder[((n - 1) % Len(TypeOrder)) + 1]>>]

\* df[df["tool_type"].notna()].groupby(["file_path", "tool_type"])[col].sum():
\* one entry per pair that occurs, sorted by file_path, then by tool_type
SumByFileAndType(rows) ==
    LET typed == SelectSeq(rows, Typed)
        keys == SelectSeq(KeyPairs,
                    LAMBDA p : \E i \in 1..Len(typed) :
                        typed[i].file_path = p[1] /\ typed[i].tool_type = p[2])
    IN  [i \in 1..Len(keys) |->
            [file_path |-> keys[i][1], tool_type |-> keys[i][2],
             sum |-> Sum(ToolColumn(SelectSeq(typed,
                        LAMBDA r : r.file_path = keys[i][1] /\ r.tool_type = keys[i][2])))]]

\* The first entry of a group with the largest sum
RECURSIVE FirstMax(_, _)
FirstMax(entries, best) ==
    IF entries = <<>> THEN best
    ELSE FirstMax(Tail(entries),
                  IF Head(entries).sum > best.sum THEN Head(entries) ELSE best)

\* tool_type_by_file.groupby("file_path").idxmax(): per file_path, in sort
\* order, the (file_path, tool_type) label of the first largest sum
idxmax(series) ==
    LET keys == SelectSeq(FilePaths,
                    LAMBDA fp : \E i \in 1..Len(series) : series[i].file_path = fp)
    IN  [i \in 1..Len(keys) |->
            LET group == SelectSeq(series, LAMBDA e : e.file_path = keys[i])
                best == FirstMax(Tail(group), Head(group))
            IN  [file_path |-> best.file_path, dominant_tool_type |-> best.tool_type]]

----------------------------------------------------------------------------
(* SpecAgg: analyze_by_file_path on the corpora of up to MaxRows rows *)

InitAgg ==
    /\ df \in SeqsUpTo(EnrichedRows, MaxRows)
    /\ agg_pc = "pct"
    /\ file_tool_pct = <<>>
    /\ range_bin = <<>>
    /\ range_counts = <<>>
    /\ tool_type_by_file = <<>>
    /\ dominant_tool_type = <<>>
    /\ IdleNorm /\ IdleRec /\ IdleBatch /\ IdleTool

\* file_tool_pct_df: the percentage per file_path, sorted descending
ComputePct ==
    /\ agg_pc = "pct"
    /\ file_tool_pct' = SortDescending(PctOfGroups(df), <<>>)
    /\ agg_pc' = "cut"
    /\ UNCHANGED <<df, range_bin, range_counts, tool_type_by_file,
                   dominant_tool_type, normVars, recVars, batchVars, toolVars>>

\* file_tool_pct_df["range_bin"] = pd.cut(...)
CutBins ==
    /\ agg_pc = "cut"
    /\ range_bin' = [i \in 1..Len(file_tool_pct) |-> cut(file_tool_pct[i])]
    /\ agg_pc' = "counts"
    /\ UNCHANGED <<df, file_tool_pct, range_counts, tool_type_by_file,
                   dominant_tool_type, normVars, recVars, batchVars, toolVars>>

\* range_counts = value_counts().sort_index(), printed
CountBins ==
    /\ agg_pc = "counts"
    /\ range_counts' = value_counts(range_bin)
    /\ agg_pc' = "by_type"
    /\ UNCHANGED <<df, file_tool_pct, range_bin, tool_type_by_file,
                   dominant_tool_type, normVars, recVars, batchVars, toolVars>>

\* tool_type_by_file
SumByType ==
    /\ agg_pc = "by_type"
    /\ tool_type_by_file' = SumByFileAndType(df)
    /\ agg_pc' = "idxmax"
    /\ UNCHANGED <<df, file_tool_pct, range_bin, range_counts,
                   dominant_tool_type, normVars, recVars, batchVars, toolVars>>

\* dominant_tool_type_df
PickDominant ==
    /\ agg_pc = "idxmax"
    /\ dominant_tool_type' = idxmax(tool_type_by_file)
    /\ agg_pc' = "done"
    /\ UNCHANGED <<df, file_tool_pct, range_bin, range_counts,
                   tool_type_by_file, normVars, recVars, batchVars, toolVars>>

NextAgg == ComputePct \/ CutBins \/ CountBins \/ SumByType \/ PickDominant

SpecAgg == InitAgg /\ [][NextAgg]_vars

----------------------------------------------------------------------------
(* Properties of analyze_by_file_path *)

RowsOf(fp) == {i \in 1..Len(df) : df[i].file_path = fp}

RECURSIVE ToolTokens(_)
ToolTokens(I) ==
    IF I = {} THEN 0
    ELSE LET i == CHOOSE i \in I : TRUE
         IN  df[i].num_token_from_toolcall + ToolTokens(I \ {i})

RECURSIVE TotalTokens(_)
TotalTokens(I) ==
    IF I = {} THEN 0
    ELSE LET i == CHOOSE i \in I : TRUE
         IN  df[i].num_token + TotalTokens(I \ {i})

Conversations == {df[i].file_path : i \in 1..Len(df)}

\* The conversations whose tool_call_token_pct is a number (not 0 / 0)
DefinedPct == {fp \in Conversations : TotalTokens(RowsOf(fp)) > 0}

Reported == agg_pc \in {"by_type", "idxmax", "done"}

\* C9: the counts of the five buckets sum to the number of conversations
\* whose tool_call_token_pct is defined, conversations without tool tokens
\* included.
C9_BucketsCoverDefinedPct ==
    Reported =>
        Sum([b \in 1..(Len(bins) - 1) |-> range_counts[b]]) = Cardinality(DefinedPct)

\* What does hold of the buckets: they sum to the number of conversations
\* that have tool tokens (a percentage in (0, 100])
BucketsCoverPositivePct ==
    Reported =>
        Sum([b \in 1..(Len(bins) - 1) |-> range_counts[b]])
            = Cardinality({fp \in Conversations : ToolTokens(RowsOf(fp)) > 0})

TypesOf(fp) == {df[i].tool_type : i \in {j \in RowsOf(fp) : df[j].tool_type # None}}

TypeSum(fp, t) == ToolTokens({i \in RowsOf(fp) : df[i].tool_type = t})

\* C10: for each conversation with a row that has a tool type, the dominant
\* type is one whose summed tool tokens are largest in the conversation; among
\* several largest it is the first in the (sorted) order the groups are
\* iterated in.  The statement reads the rows as a bag, so the result is the
\* same for every ordering of the rows.
C10_DominantIsFirstLargest ==
    agg_pc = "done" =>
        \A n \in 1..Len(FilePaths) :
            LET fp == FilePaths[n]
                entries == {i \in 1..Len(dominant_tool_type) :
                                dominant_tool_type[i].file_path = fp}
            IN  IF TypesOf(fp) = {}
                THEN entries = {}
                ELSE /\ Cardinality(entries) = 1
                     /\ \A i \in entries :
                           LET d == dominant_tool_type[i].dominant_tool_type
                           IN  /\ d \in TypesOf(fp)
                               /\ \A t \in TypesOf(fp) :
                                     /\ TypeSum(fp, t) <= TypeSum(fp, d)
                                     /\ TypeSum(fp, t) = TypeSum(fp, d)
                                           => RankIn(TypeOrder, d) <= RankIn(TypeOrder, t)

\* Two types tie in f1, the row of the later type comes first, and the
\* earlier type is reported
C10_Witness ==
    /\ agg_pc = "done"
    /\ Len(df) = 3
    /\ df[1].file_path = "f1" /\ df[1].tool_type = TypeOrder[2]
    /\ df[2].file_path = "f1" /\ df[2].tool_type = TypeOrder[1]
    /\ df[3].file_path = "f2"
    /\ TypeSum("f1", TypeOrder[1]) = TypeSum("f1", TypeOrder[2])
    /\ \E i \in 1..Len(dominant_tool_type) :
          dominant_tool_type[i] = [file_path |-> "f1", dominant_tool_type |-> TypeOrder[1]]

\* The entry of file_tool_pct for a conversation
PctEntry(fp) == CHOOSE i \in 1..Len(file_tool_pct) : file_tool_pct[i].file_path = fp

PctComputed == agg_pc \in {"cut", "counts", "by_type", "idxmax", "done"}

\* The value of an entry is the number 0: it is a number, and it is 0
PctIsZero(g) == ~IsNaN(g) /\ g.tool = 0

\* C11: every conversation has a tool_call_token_pct, equal to
\* 100 * sum(tool tokens) / sum(total tokens) over its rows, and equal to 0
\* when the sum of total tokens is 0.
C11_PctIsRatioOrZero ==
    PctComputed =>
        \A fp \in Conversations :
            /\ \E i \in 1..Len(file_tool_pct) : file_tool_pct[i].file_path = fp
            /\ LET g == file_tool_pct[PctEntry(fp)]
               IN  /\ g.tool = ToolTokens(RowsOf(fp))
                   /\ g.total = TotalTokens(RowsOf(fp))
                   /\ TotalTokens(RowsOf(fp)) = 0 => PctIsZero(g)

\* What does hold of the percentages: each conversation has one entry, the
\* ratio of its two sums, which is NaN exactly when the sum of total tokens
\* is 0
PctIsRatioOrNaN ==
    PctComputed =>
        /\ Len(file_tool_pct) = Cardinality(Conversations)
        /\ \A fp \in Conversations :
            /\ \E i \in 1..Len(file_tool_pct) : file_tool_pct[i].file_path = fp
            /\ LET g == file_tool_pct[PctEntry(fp)]
               IN  /\ g.tool = ToolTokens(RowsOf(fp))
                   /\ g.total = TotalTokens(RowsOf(fp))
                   /\ IsNaN(g) <=> TotalTokens(RowsOf(fp)) = 0

----------------------------------------------------------------------------
(* The pipeline as one specification: any of the stages, on any input *)

Init == InitNormalize \/ InitRecord \/ InitBatch \/ InitTool \/ InitAgg

Next == NextNormalize \/ NextRecord \/ NextBatch \/ NextTool \/ NextAgg

Spec == Init /\ [][Next]_vars

====
